---- MODULE Spec2Model ----
(***************************************************************************)
(* pypl2: the ctypes wrapper PyPL2FileReader (src/pypl2lib.py) and the     *)
(* query functions pl2_ad, pl2_spikes, pl2_events, pl2_info               *)
(* (src/pypl2api.py), run against a PL2 file served by the native reader.  *)
(*                                                                         *)
(* Numbers: ticks, raw codes and counts are integers.  A value in seconds  *)
(* is kept as the exact quotient [num, den] of tick by tick frequency; a   *)
(* coefficient is an integer number of CoeffUnit volts, so a value in      *)
(* volts is raw code times coefficient, in CoeffUnit.                      *)
(***************************************************************************)
EXTENDS Integers, Sequences, FiniteSets, TLC

VARIABLES
    ffi,          \* "ctypes" (win) or "zugbruecke" (linux/darwin/freebsd)
    pl2,          \* contents of the PL2 file on disk, as the native reader serves it
    openHandles,  \* handles the native reader currently has open
    nextHandle,   \* the handle the next successful PL2_OpenFile returns
    ret,          \* outcome of the last call: of a query function, or of a
                  \* three-way comparison of the wrapper's addressing paths
    reader,       \* one PyPL2FileReader whose methods a caller uses directly
    queries       \* the query functions in progress, when run interleaved

vars == <<ffi, pl2, openHandles, nextHandle, ret, reader, queries>>

\* number of PL2_OpenFile calls in one run
MaxOpens == 2

\* m_UnitCounts has one bucket per unit, 0 (unsorted) .. 255
NumUnitBuckets == 256

GoodFile == "4chDemoPL2.pl2"

----------------------------------------------------------------------------
(* Sequence helpers                                                        *)

RECURSIVE SumSeq(_)
SumSeq(s) == IF s = <<>> THEN 0 ELSE Head(s) + SumSeq(Tail(s))

RECURSIVE Flatten(_)
Flatten(ss) == IF ss = <<>> THEN <<>> ELSE Head(ss) \o Flatten(Tail(ss))

\* a ctypes array of n elements is created zero-filled
Zeros(n) == [i \in 1..n |-> 0]

\* the native reader fills a buffer of n with as much of src as it holds
Fill(n, src) == [i \in 1..n |-> IF i <= Len(src) THEN src[i] ELSE 0]

----------------------------------------------------------------------------
(* The PL2 file.  Each channel has the descriptor stored in its header     *)
(* and the data blocks actually stored for it; the header's counts may     *)
(* disagree with the stored data by a slack, and the data blocks may be    *)
(* unreadable although the header is intact.                               *)

UnitCounts(spikes) ==
    [u \in 0..(NumUnitBuckets - 1) |-> Cardinality({i \in 1..Len(spikes) : spikes[i].unit = u})]

AnalogChan(name, channel, enabled, frags, vals, fslack, vslack) ==
    [info |-> [m_Name |-> name, m_Source |-> 1, m_Channel |-> channel,
               m_ChannelEnabled |-> enabled,
               m_SamplesPerSecond |-> 40000,
               m_CoeffToConvertToUnits |-> 3,
               m_NumberOfValues |-> Len(vals) + vslack,
               m_MaximumNumberOfFragments |-> Len(frags) + fslack],
     frags |-> frags, vals |-> vals]

SpikeChan(name, channel, enabled, sps, spikes, slack) ==
    [info |-> [m_Name |-> name, m_Source |-> 2, m_Channel |-> channel,
               m_ChannelEnabled |-> enabled,
               m_CoeffToConvertToUnits |-> 5,
               m_SamplesPerSpike |-> sps,
               m_UnitCounts |-> UnitCounts(spikes),
               m_NumberOfSpikes |-> Len(spikes) + slack],
     spikes |-> spikes]

DigitalChan(name, channel, events, slack) ==
    [info |-> [m_Name |-> name, m_Source |-> 3, m_Channel |-> channel,
               m_NumberOfEvents |-> Len(events) + slack],
     events |-> events]

Frag(ts, n) == [ts |-> ts, n |-> n]
Spike(ts, unit, wave) == [ts |-> ts, unit |-> unit, wave |-> wave]
Event(ts, val) == [ts |-> ts, val |-> val]

Slacks == {-1, 0, 1}

AnalogLayouts ==
    { [frags |-> <<Frag(0, 2)>>, vals |-> <<1, 2>>],
      [frags |-> <<Frag(4, 1), Frag(8, 2)>>, vals |-> <<7, -1, 0>>] }

SpikeLayouts ==
    { <<Spike(6, 1, <<1, 2, 3>>), Spike(2, 0, <<4, 5, 6>>)>>,
      <<Spike(0, 2, <<-3, 0, 9>>)>> }

DigitalLayouts ==
    { <<Event(0, 7), Event(5, 0)>>,
      <<Event(3, 1)>> }

DefaultAnalog(enabled) == AnalogChan("WB02", 2, enabled, <<Frag(2, 1)>>, <<4>>, 0, 0)
DefaultSpike(enabled) == SpikeChan("SPK2", 2, enabled, 2, <<Spike(1, 1, <<8, 9>>)>>, 0)
DefaultDigital(n) == DigitalChan("EVT2", 2, [i \in 1..n |-> Event(i, 1)], 0)

File(analog0, spike0, digital0, flag) ==
    [m_TimestampFrequency |-> 4,
     readable |-> TRUE,
     analog  |-> <<analog0, DefaultAnalog(flag)>>,
     spike   |-> <<spike0, DefaultSpike(1 - flag)>>,
     digital |-> <<digital0, DefaultDigital(flag)>>]

\* the same file with data blocks the reader fails to read
Unreadable(file) == [file EXCEPT !.readable = FALSE]

\* the same file with a header whose timestamp frequency is 0
ZeroFrequency(file) == [file EXCEPT !.m_TimestampFrequency = 0]

\* header counts against stored counts: <<fragments, values>>
AnalogSlacks == {<<0, 0>>, <<-1, 0>>, <<1, 0>>, <<0, -1>>, <<0, 1>>, <<1, 1>>}

\* the files: one channel varies in data and slack, or the channels vary
\* in their enabled flags and event counts, or the data cannot be read
Files ==
    LET a0 == AnalogChan("WB01", 1, 1, <<Frag(4, 2)>>, <<1, 2>>, 0, 0)
        s0 == SpikeChan("SPK1", 1, 1, 3, <<Spike(6, 1, <<1, 2, 3>>)>>, 0)
        d0 == DigitalChan("EVT1", 1, <<Event(3, 1)>>, 0)
    IN  { File(AnalogChan("WB01", 1, 1, l.frags, l.vals, sl[1], sl[2]), s0, d0, 1) :
              <<l, sl>> \in AnalogLayouts \X AnalogSlacks }
        \cup
        { File(a0, SpikeChan("SPK1", 1, 1, 3, l, sl), d0, 1) :
              <<l, sl>> \in SpikeLayouts \X Slacks }
        \cup
        { File(a0, s0, DigitalChan("EVT1", 1, l, sl), 1) :
              <<l, sl>> \in DigitalLayouts \X Slacks }
        \cup
        { File(AnalogChan("WB01", 1, ea, <<Frag(4, 2)>>, <<1, 2>>, 0, 0),
               SpikeChan("SPK1", 1, es, 3, <<Spike(6, 1, <<1, 2, 3>>)>>, 0),
               d0, flag) :
              <<ea, es, flag>> \in {0, 1} \X {0, 1} \X {0, 1} }
        \cup
        { Unreadable(File(a0, s0, d0, 1)) }
        \cup
        { ZeroFrequency(File(a0, s0, d0, 1)) }

Kinds == {"analog", "spike", "digital"}

Channels(kind) ==
    CASE kind = "analog" -> pl2.analog
      [] kind = "spike" -> pl2.spike
      [] kind = "digital" -> pl2.digital

----------------------------------------------------------------------------
(* The native reader (PL2FileReader.dll), by its entry points; open is    *)
(* the set of handles it has open when the call is made.                   *)

ZeroInfo(kind) ==
    CASE kind = "analog" ->
           [m_Name |-> "", m_Source |-> 0, m_Channel |-> 0, m_ChannelEnabled |-> 0,
            m_SamplesPerSecond |-> 0, m_CoeffToConvertToUnits |-> 0,
            m_NumberOfValues |-> 0, m_MaximumNumberOfFragments |-> 0]
      [] kind = "spike" ->
           [m_Name |-> "", m_Source |-> 0, m_Channel |-> 0, m_ChannelEnabled |-> 0,
            m_CoeffToConvertToUnits |-> 0, m_SamplesPerSpike |-> 0,
            m_UnitCounts |-> [u \in 0..(NumUnitBuckets - 1) |-> 0],
            m_NumberOfSpikes |-> 0]
      [] kind = "digital" ->
           [m_Name |-> "", m_Source |-> 0, m_Channel |-> 0, m_NumberOfEvents |-> 0]

\* position in Channels(kind) of the channel a selector addresses, 0 if none
Lookup(kind, form, sel) ==
    LET chs == Channels(kind)
        hit == CASE form = "index" -> {i \in 1..Len(chs) : i - 1 = sel}
                 [] form = "name" -> {i \in 1..Len(chs) : chs[i].info.m_Name = sel}
                 [] form = "source" -> {i \in 1..Len(chs) :
                                           /\ chs[i].info.m_Source = sel[1]
                                           /\ chs[i].info.m_Channel = sel[2]}
    IN  IF hit = {} THEN 0 ELSE CHOOSE i \in hit : \A j \in hit : i <= j

PL2_GetChannelInfo(open, handle, kind, form, sel) ==
    LET at == Lookup(kind, form, sel)
    IN  IF handle \notin open \/ at = 0
        THEN [result |-> 0, out |-> ZeroInfo(kind)]
        ELSE [result |-> 1, out |-> Channels(kind)[at].info]

\* the file summary of an open handle
PL2_GetFileInfo(open, handle) ==
    IF handle \notin open
    THEN [result |-> 0,
          out |-> [m_TimestampFrequency |-> 0, m_TotalNumberOfSpikeChannels |-> 0,
                   m_TotalNumberOfAnalogChannels |-> 0, m_NumberOfDigitalChannels |-> 0]]
    ELSE [result |-> 1,
          out |-> [m_TimestampFrequency |-> pl2.m_TimestampFrequency,
                   m_TotalNumberOfSpikeChannels |-> Len(pl2.spike),
                   m_TotalNumberOfAnalogChannels |-> Len(pl2.analog),
                   m_NumberOfDigitalChannels |-> Len(pl2.digital)]]

\* The data calls get the caller's buffers by their lengths (cap) and write
\* the stored data into them, as far as they reach; the returned counts are
\* the stored counts.  A call that fails returns 0 and leaves the counts and
\* the buffers as the caller set them.
PL2_GetAnalogChannelData(open, handle, form, sel, cap) ==
    LET at == Lookup("analog", form, sel)
        ch == pl2.analog[at]
    IN  IF handle \notin open \/ at = 0 \/ ~pl2.readable
        THEN [result |-> 0,
              num_fragments_returned |-> cap.fragment_timestamps,
              num_data_points_returned |-> cap.values,
              fragment_timestamps |-> Zeros(cap.fragment_timestamps),
              fragment_counts |-> Zeros(cap.fragment_counts),
              values |-> Zeros(cap.values)]
        ELSE [result |-> 1,
              num_fragments_returned |-> Len(ch.frags),
              num_data_points_returned |-> Len(ch.vals),
              fragment_timestamps |->
                  Fill(cap.fragment_timestamps, [i \in 1..Len(ch.frags) |-> ch.frags[i].ts]),
              fragment_counts |->
                  Fill(cap.fragment_counts, [i \in 1..Len(ch.frags) |-> ch.frags[i].n]),
              values |-> Fill(cap.values, ch.vals)]

PL2_GetSpikeChannelData(open, handle, form, sel, cap) ==
    LET at == Lookup("spike", form, sel)
        ch == pl2.spike[at]
    IN  IF handle \notin open \/ at = 0 \/ ~pl2.readable
        THEN [result |-> 0,
              num_spikes_returned |-> cap.spike_timestamps,
              spike_timestamps |-> Zeros(cap.spike_timestamps),
              units |-> Zeros(cap.units),
              values |-> Zeros(cap.values)]
        ELSE [result |-> 1,
              num_spikes_returned |-> Len(ch.spikes),
              spike_timestamps |->
                  Fill(cap.spike_timestamps, [i \in 1..Len(ch.spikes) |-> ch.spikes[i].ts]),
              units |-> Fill(cap.units, [i \in 1..Len(ch.spikes) |-> ch.spikes[i].unit]),
              values |->
                  Fill(cap.values,
                       Flatten([i \in 1..Len(ch.spikes) |-> ch.spikes[i].wave]))]

PL2_GetDigitalChannelData(open, handle, form, sel, cap) ==
    LET at == Lookup("digital", form, sel)
        ch == pl2.digital[at]
    IN  IF handle \notin open \/ at = 0 \/ ~pl2.readable
        THEN [result |-> 0,
              num_events_returned |-> cap.event_timestamps,
              event_timestamps |-> Zeros(cap.event_timestamps),
              event_values |-> Zeros(cap.event_values)]
        ELSE [result |-> 1,
              num_events_returned |-> Len(ch.events),
              event_timestamps |->
                  Fill(cap.event_timestamps, [i \in 1..Len(ch.events) |-> ch.events[i].ts]),
              event_values |->
                  Fill(cap.event_values, [i \in 1..Len(ch.events) |-> ch.events[i].val])]

----------------------------------------------------------------------------
(* ctypes argument conversion.  A foreign function with argtypes set       *)
(* converts each argument with the from_param of its declared type and     *)
(* raises ArgumentError when one is refused.                               *)

CType(c, t, n) == [c |-> c, t |-> t, n |-> n]
c_val(t) == CType("val", t, 0)               \* c_int, c_ulonglong, a Structure
c_arr(t, n) == CType("arr", t, n)            \* t * n
POINTER(ty) == CType(IF ty.c = "arr" THEN "ptrarr" ELSE "ptr", ty.t, ty.n)

inst(ty) == [form |-> "inst", ty |-> ty]     \* an instance of ty
byref(ty) == [form |-> "byref", ty |-> ty]   \* byref(instance of ty)
bytes == [form |-> "bytes", ty |-> c_val("bytes")]

\* create_string_buffer(b) is a c_char array of len(b) + 1
create_string_buffer(n) == inst(c_arr("c_char", n + 1))

from_param(argtype, arg) ==
    CASE argtype.c \in {"val", "arr"} ->
           arg.form = "inst" /\ arg.ty = argtype
      [] argtype.c = "ptr" ->
           \/ arg.form = "byref" /\ arg.ty = c_val(argtype.t)
           \/ arg.form = "inst" /\ arg.ty = c_val(argtype.t)
           \/ arg.form = "inst" /\ arg.ty.c = "arr" /\ arg.ty.t = argtype.t
           \/ arg.form = "bytes" /\ argtype.t = "c_char"
      [] argtype.c = "ptrarr" ->
           arg.form \in {"byref", "inst"} /\ arg.ty = c_arr(argtype.t, argtype.n)

\* argtypes = <<>> stands for a function whose argtypes were never set
Accepts(argtypes, args) ==
    \/ ffi = "zugbruecke"
    \/ argtypes = <<>>
    \/ /\ Len(argtypes) = Len(args)
       /\ \A i \in 1..Len(args) : from_param(argtypes[i], args[i])

\* len(channel_name)
len(channel_name) == IF channel_name = "DoesNotExist" THEN 12 ELSE 4

\* one foreign call: refused by the argument conversion, or made
Call(fn, argtypes, args, r) ==
    IF Accepts(argtypes, args)
    THEN [exc |-> "none", fn |-> fn, r |-> r]
    ELSE [exc |-> "ArgumentError", fn |-> fn, r |-> [result |-> 0]]

----------------------------------------------------------------------------
(* PyPL2FileReader (src/pypl2lib.py).  A reader object is                  *)
(* [file_handle, has_file_info, pl2_file_info]; every method gets the set  *)
(* of handles the native reader has open and returns the foreign call it   *)
(* made (Call), whose r holds the native result and the filled arguments.  *)

NoFileInfo ==
    [m_TimestampFrequency |-> 0, m_TotalNumberOfSpikeChannels |-> 0,
     m_TotalNumberOfAnalogChannels |-> 0, m_NumberOfDigitalChannels |-> 0]

\* PyPL2FileReader(): no file_handle and no pl2_file_info attribute yet
NewReader == [file_handle |-> 0, has_file_info |-> FALSE, pl2_file_info |-> NoFileInfo]

h_int == inst(c_val("c_int"))
p_count == byref(c_val("c_ulonglong"))

\* pl2_open_file, were it to return self.result
pl2_open_file_returns_result(self, next, pl2_file) ==
    LET argtypes == <<POINTER(c_val("c_char")), POINTER(c_val("c_int"))>>
        args == <<create_string_buffer(len(pl2_file)), byref(c_val("c_int"))>>
        ok == pl2_file = GoodFile
        c == Call("PL2_OpenFile", argtypes, args,
                  [result |-> IF ok THEN 1 ELSE 0, handle |-> IF ok THEN next ELSE 0])
    IN  [exc |-> c.exc, fn |-> c.fn,
         self |-> [self EXCEPT !.file_handle = IF c.exc = "none" THEN c.r.handle ELSE 0],
         value |-> IF c.exc = "none" THEN c.r.result ELSE 0]

\* PL2_OpenFile hands out the next handle for a readable file, 0 otherwise
pl2_open_file(self, next, pl2_file) ==
    LET argtypes == <<POINTER(c_val("c_char")), POINTER(c_val("c_int"))>>
        args == <<create_string_buffer(len(pl2_file)), byref(c_val("c_int"))>>
        ok == pl2_file = GoodFile
        c == Call("PL2_OpenFile", argtypes, args,
                  [result |-> IF ok THEN 1 ELSE 0, handle |-> IF ok THEN next ELSE 0])
    IN  [exc |-> c.exc, fn |-> c.fn,
         self |-> [self EXCEPT !.file_handle = IF c.exc = "none" THEN c.r.handle ELSE 0],
         value |-> IF c.exc = "none" THEN c.r.handle ELSE 0]

\* pl2_close_file, were the handle it hands over not the one it opened
pl2_close_file_other_handle(self, open) ==
    LET c == Call("PL2_CloseFile", <<POINTER(c_val("c_int"))>>, <<h_int>>, [result |-> 1])
    IN  [exc |-> c.exc, fn |-> c.fn, open |-> open \ {0}]

\* PL2_CloseFile is handed self.file_handle and closes that handle
pl2_close_file(self, open) ==
    LET argtypes == <<POINTER(c_val("c_int"))>>
        args == <<h_int>>
        c == Call("PL2_CloseFile", argtypes, args, [result |-> 1])
    IN  [exc |-> c.exc, fn |-> c.fn,
         open |-> IF c.exc = "none" THEN open \ {self.file_handle} ELSE open]

pl2_get_analog_channel_info(self, open, zero_based_channel_index) ==
    Call("PL2_GetAnalogChannelInfo",
         <<c_val("c_int"), c_val("c_int"), POINTER(c_val("PL2AnalogChannelInfo"))>>,
         <<h_int, inst(c_val("c_int")), byref(c_val("PL2AnalogChannelInfo"))>>,
         PL2_GetChannelInfo(open, self.file_handle, "analog", "index",
                            zero_based_channel_index))

pl2_get_analog_channel_info_by_name(self, open, channel_name) ==
    Call("PL2_GetAnalogChannelInfoByName",
         <<c_val("c_int"), c_arr("c_char", len(channel_name)),
           POINTER(c_val("PL2AnalogChannelInfo"))>>,
         <<h_int, bytes, byref(c_val("PL2AnalogChannelInfo"))>>,
         PL2_GetChannelInfo(open, self.file_handle, "analog", "name", channel_name))

\* sets the argtypes of PL2_GetAnalogChannelInfoByName, not of the function
\* it calls, whose argtypes stay unset
pl2_get_analog_channel_info_by_source(self, open, source_id, one_based_channel_index_in_source) ==
    Call("PL2_GetAnalogChannelInfoBySource",
         <<>>,
         <<h_int, inst(c_val("c_int")), inst(c_val("c_int")),
           byref(c_val("PL2AnalogChannelInfo"))>>,
         PL2_GetChannelInfo(open, self.file_handle, "analog", "source",
                            <<source_id, one_based_channel_index_in_source>>))

pl2_get_spike_channel_info(self, open, zero_based_channel_index) ==
    Call("PL2_GetSpikeChannelInfo",
         <<c_val("c_int"), c_val("c_int"), POINTER(c_val("PL2SpikeChannelInfo"))>>,
         <<h_int, inst(c_val("c_int")), byref(c_val("PL2SpikeChannelInfo"))>>,
         PL2_GetChannelInfo(open, self.file_handle, "spike", "index",
                            zero_based_channel_index))

pl2_get_spike_channel_info_by_name(self, open, channel_name) ==
    Call("PL2_GetSpikeChannelInfoByName",
         <<c_val("c_int"), c_arr("c_char", len(channel_name)),
           POINTER(c_val("PL2SpikeChannelInfo"))>>,
         <<h_int, bytes, byref(c_val("PL2SpikeChannelInfo"))>>,
         PL2_GetChannelInfo(open, self.file_handle, "spike", "name", channel_name))

pl2_get_spike_channel_info_by_source(self, open, source_id, one_based_channel_index_in_source) ==
    Call("PL2_GetSpikeChannelInfoBySource",
         <<c_val("c_int"), c_val("c_int"), c_val("c_int"),
           POINTER(c_val("PL2SpikeChannelInfo"))>>,
         <<h_int, inst(c_val("c_int")), inst(c_val("c_int")),
           byref(c_val("PL2SpikeChannelInfo"))>>,
         PL2_GetChannelInfo(open, self.file_handle, "spike", "source",
                            <<source_id, one_based_channel_index_in_source>>))

pl2_get_digital_channel_info(self, open, zero_based_channel_index) ==
    Call("PL2_GetDigitalChannelInfo",
         <<c_val("c_int"), c_val("c_int"), POINTER(c_val("PL2DigitalChannelInfo"))>>,
         <<h_int, inst(c_val("c_int")), byref(c_val("PL2DigitalChannelInfo"))>>,
         PL2_GetChannelInfo(open, self.file_handle, "digital", "index",
                            zero_based_channel_index))

\* argtypes takes len(channel_name); the argument is a string buffer, which
\* is one longer
pl2_get_digital_channel_info_by_name(self, open, channel_name) ==
    Call("PL2_GetDigitalChannelInfoByName",
         <<c_val("c_int"), c_arr("c_char", len(channel_name)),
           POINTER(c_val("PL2DigitalChannelInfo"))>>,
         <<h_int, create_string_buffer(len(channel_name)),
           byref(c_val("PL2DigitalChannelInfo"))>>,
         PL2_GetChannelInfo(open, self.file_handle, "digital", "name", channel_name))

pl2_get_digital_channel_info_by_source(self, open, source_id, one_based_channel_index_in_source) ==
    Call("PL2_GetDigitalChannelInfoBySource",
         <<c_val("c_int"), c_val("c_int"), c_val("c_int"),
           POINTER(c_val("PL2DigitalChannelInfo"))>>,
         <<h_int, inst(c_val("c_int")), inst(c_val("c_int")),
           byref(c_val("PL2DigitalChannelInfo"))>>,
         PL2_GetChannelInfo(open, self.file_handle, "digital", "source",
                            <<source_id, one_based_channel_index_in_source>>))

----------------------------------------------------------------------------
(* The data methods.  The caller's buffers are given by their ctypes array *)
(* types; argtypes are built from the buffers' lengths and the element     *)
(* types the method names.                                                 *)

pl2_get_analog_channel_data(self, open, zero_based_channel_index, fragment_timestamps, fragment_counts, values) ==
    Call("PL2_GetAnalogChannelData",
         <<c_val("c_int"), c_val("c_int"),
           POINTER(c_val("c_ulonglong")), POINTER(c_val("c_ulonglong")),
           POINTER(c_arr("c_longlong", fragment_timestamps.n)),
           POINTER(c_arr("c_ulonglong", fragment_counts.n)),
           POINTER(c_arr("c_short", values.n))>>,
         <<h_int, inst(c_val("c_int")), p_count, p_count,
           byref(fragment_timestamps), byref(fragment_counts), byref(values)>>,
         PL2_GetAnalogChannelData(open, self.file_handle, "index", zero_based_channel_index,
             [fragment_timestamps |-> fragment_timestamps.n,
              fragment_counts |-> fragment_counts.n, values |-> values.n]))

pl2_get_analog_channel_data_by_name(self, open, channel_name, fragment_timestamps, fragment_counts, values) ==
    Call("PL2_GetAnalogChannelDataByName",
         <<c_val("c_int"), c_arr("c_char", len(channel_name)),
           POINTER(c_val("c_ulonglong")), POINTER(c_val("c_ulonglong")),
           POINTER(c_arr("c_longlong", fragment_timestamps.n)),
           POINTER(c_arr("c_ulonglong", fragment_counts.n)),
           POINTER(c_arr("c_short", values.n))>>,
         <<h_int, bytes, p_count, p_count,
           byref(fragment_timestamps), byref(fragment_counts), byref(values)>>,
         PL2_GetAnalogChannelData(open, self.file_handle, "name", channel_name,
             [fragment_timestamps |-> fragment_timestamps.n,
              fragment_counts |-> fragment_counts.n, values |-> values.n]))

pl2_get_analog_channel_data_by_source(self, open, source_id, one_based_channel_index_in_source, fragment_timestamps, fragment_counts, values) ==
    Call("PL2_GetAnalogChannelDataBySource",
         <<c_val("c_int"), c_val("c_int"), c_val("c_int"),
           POINTER(c_val("c_ulonglong")), POINTER(c_val("c_ulonglong")),
           POINTER(c_arr("c_longlong", fragment_timestamps.n)),
           POINTER(c_arr("c_ulonglong", fragment_counts.n)),
           POINTER(c_arr("c_short", values.n))>>,
         <<h_int, inst(c_val("c_int")), inst(c_val("c_int")), p_count, p_count,
           byref(fragment_timestamps), byref(fragment_counts), byref(values)>>,
         PL2_GetAnalogChannelData(open, self.file_handle, "source", <<source_id, one_based_channel_index_in_source>>,
             [fragment_timestamps |-> fragment_timestamps.n,
              fragment_counts |-> fragment_counts.n, values |-> values.n]))

pl2_get_spike_channel_data(self, open, zero_based_channel_index, spike_timestamps, units, values) ==
    Call("PL2_GetSpikeChannelData",
         <<c_val("c_int"), c_val("c_int"),
           POINTER(c_val("c_ulonglong")),
           POINTER(c_arr("c_ulonglong", spike_timestamps.n)),
           POINTER(c_arr("c_ushort", units.n)),
           POINTER(c_arr("c_short", values.n))>>,
         <<h_int, inst(c_val("c_int")), p_count,
           byref(spike_timestamps), byref(units), byref(values)>>,
         PL2_GetSpikeChannelData(open, self.file_handle, "index", zero_based_channel_index,
             [spike_timestamps |-> spike_timestamps.n, units |-> units.n,
              values |-> values.n]))

pl2_get_spike_channel_data_by_name(self, open, channel_name, spike_timestamps, units, values) ==
    Call("PL2_GetSpikeChannelDataByName",
         <<c_val("c_int"), c_arr("c_char", len(channel_name)),
           POINTER(c_val("c_ulonglong")),
           POINTER(c_arr("c_ulonglong", spike_timestamps.n)),
           POINTER(c_arr("c_ushort", units.n)),
           POINTER(c_arr("c_short", values.n))>>,
         <<h_int, bytes, p_count,
           byref(spike_timestamps), byref(units), byref(values)>>,
         PL2_GetSpikeChannelData(open, self.file_handle, "name", channel_name,
             [spike_timestamps |-> spike_timestamps.n, units |-> units.n,
              values |-> values.n]))

\* the count argument is declared c_ulonglong, by value
pl2_get_spike_channel_data_by_source(self, open, source_id, one_based_channel_index_in_source, spike_timestamps, units, values) ==
    Call("PL2_GetSpikeChannelDataBySource",
         <<c_val("c_int"), c_val("c_int"), c_val("c_int"),
           c_val("c_ulonglong"),
           POINTER(c_arr("c_ulonglong", spike_timestamps.n)),
           POINTER(c_arr("c_ushort", units.n)),
           POINTER(c_arr("c_short", values.n))>>,
         <<h_int, inst(c_val("c_int")), inst(c_val("c_int")), p_count,
           byref(spike_timestamps), byref(units), byref(values)>>,
         PL2_GetSpikeChannelData(open, self.file_handle, "source", <<source_id, one_based_channel_index_in_source>>,
             [spike_timestamps |-> spike_timestamps.n, units |-> units.n,
              values |-> values.n]))

\* the values argument is declared a c_short array
pl2_get_digital_channel_data(self, open, zero_based_channel_index, event_timestamps, event_values) ==
    Call("PL2_GetDigitalChannelData",
         <<c_val("c_int"), c_val("c_int"),
           POINTER(c_val("c_ulonglong")),
           POINTER(c_arr("c_longlong", event_timestamps.n)),
           POINTER(c_arr("c_short", event_values.n))>>,
         <<h_int, inst(c_val("c_int")), p_count,
           byref(event_timestamps), byref(event_values)>>,
         PL2_GetDigitalChannelData(open, self.file_handle, "index", zero_based_channel_index,
             [event_timestamps |-> event_timestamps.n,
              event_values |-> event_values.n]))

\* the name goes as a string buffer to a POINTER(c_char)
pl2_get_digital_channel_data_by_name(self, open, channel_name, event_timestamps, event_values) ==
    Call("PL2_GetDigitalChannelDataByName",
         <<c_val("c_int"), POINTER(c_val("c_char")),
           POINTER(c_val("c_ulonglong")),
           POINTER(c_arr("c_longlong", event_timestamps.n)),
           POINTER(c_arr("c_ushort", event_values.n))>>,
         <<h_int, create_string_buffer(len(channel_name)), p_count,
           byref(event_timestamps), byref(event_values)>>,
         PL2_GetDigitalChannelData(open, self.file_handle, "name", channel_name,
             [event_timestamps |-> event_timestamps.n,
              event_values |-> event_values.n]))

pl2_get_digital_channel_data_by_source(self, open, source_id, one_based_channel_index_in_source, event_timestamps, event_values) ==
    Call("PL2_GetDigitalChannelDataBySource",
         <<c_val("c_int"), c_val("c_int"), c_val("c_int"),
           POINTER(c_val("c_ulonglong")),
           POINTER(c_arr("c_longlong", event_timestamps.n)),
           POINTER(c_arr("c_ushort", event_values.n))>>,
         <<h_int, inst(c_val("c_int")), inst(c_val("c_int")), p_count,
           byref(event_timestamps), byref(event_values)>>,
         PL2_GetDigitalChannelData(open, self.file_handle, "source", <<source_id, one_based_channel_index_in_source>>,
             [event_timestamps |-> event_timestamps.n,
              event_values |-> event_values.n]))

----------------------------------------------------------------------------
(* The wrapper as pypl2api.py and the tests call it: pl2_get_file_info()   *)
(* without argument keeps the summary in self.pl2_file_info, and an info   *)
(* method called with the selector alone returns the descriptor.           *)

pl2_get_file_info(self, open) ==
    Call("PL2_GetFileInfo",
         <<c_val("c_int"), POINTER(c_val("PL2FileInfo"))>>,
         <<h_int, byref(c_val("PL2FileInfo"))>>,
         PL2_GetFileInfo(open, self.file_handle))

\* self.pl2_file_info = the filled PL2FileInfo
StoreFileInfo(self, c) ==
    [self EXCEPT !.has_file_info = TRUE, !.pl2_file_info = c.r.out]

\* the descriptor an info call filled, or the error of a channel not found
InfoOrRaise(c) ==
    [exc |-> IF c.exc # "none" THEN c.exc
             ELSE IF c.r.result = 0 THEN "ChannelNotFoundError" ELSE "none",
     fn |-> c.fn,
     made |-> c.exc = "none",
     info |-> IF c.exc = "none" THEN c.r.out ELSE [m_Name |-> ""]]

----------------------------------------------------------------------------
(* pypl2api.py                                                             *)

to_array(c_array) == c_array

\* to_array_nonzero, were it a[np.where(a > 1)]
to_array_above_one(c_array) == SelectSeq(c_array, LAMBDA x : x > 1)

\* a[np.where(a)]: the nonzero entries of a, in order
to_array_nonzero(c_array) == SelectSeq(c_array, LAMBDA x : x # 0)

\* tick / m_TimestampFrequency, as the exact quotient
Seconds(tick, freq) == [num |-> tick, den |-> freq]

\* raw code * m_CoeffToConvertToUnits
Volts(raw, coeff) == raw * coeff

\* type(channel) of the channel argument
IsInt(channel) == channel.type = "int"
IsStr(channel) == channel.type \in {"str", "bytes"}

NoRecord == [empty |-> TRUE]
NoData == [result |-> 0]

\* the call ended by an exception
Raised(op, filename, channel, err, self, calls, info, data) ==
    [op |-> op, filename |-> filename, channel |-> channel,
     status |-> "raised", err |-> err, rec |-> NoRecord,
     handle |-> self.file_handle, calls |-> calls, info |-> info, data |-> data]

\* the call returned rec
Returned(op, filename, channel, rec, self, calls, info, data) ==
    [op |-> op, filename |-> filename, channel |-> channel,
     status |-> "record", err |-> "none", rec |-> rec,
     handle |-> self.file_handle, calls |-> calls, info |-> info, data |-> data]

\* the handles open once PL2_OpenFile returned
Opened(o) == IF o.value > 0 THEN openHandles \cup {o.value} ELSE openHandles

\* the asserts of pl2_ad, were the one on the data points missing
ad_fragments_accepted(achannel_info, r) ==
    achannel_info.m_MaximumNumberOfFragments >= r.num_fragments_returned

\* the asserts of pl2_ad on the returned counts
ad_counts_accepted(achannel_info, r) ==
    /\ achannel_info.m_MaximumNumberOfFragments >= r.num_fragments_returned
    /\ achannel_info.m_NumberOfValues >= r.num_data_points_returned

\* the named tuple pl2_ad returns
PL2Ad(achannel_info, r, pl2_file_info) ==
    LET ts == to_array_nonzero(r.fragment_timestamps)
    IN  [adfrequency |-> achannel_info.m_SamplesPerSecond,
         n |-> r.num_data_points_returned,
         timestamps |-> [i \in 1..Len(ts) |->
                            Seconds(ts[i], pl2_file_info.m_TimestampFrequency)],
         fragmentcounts |-> to_array_nonzero(r.fragment_counts),
         ad |-> [i \in 1..Len(r.values) |->
                    Volts(to_array(r.values)[i], achannel_info.m_CoeffToConvertToUnits)]]

\* pl2_ad once the data call was made: the asserts, the close, the record
pl2_ad_fetched(filename, channel, p, open, calls, achannel_info, cd) ==
    IF cd.exc # "none"
    THEN [out |-> Raised("pl2_ad", filename, channel, cd.exc, p, calls, achannel_info, NoData),
          open |-> open]
    ELSE IF ~ad_counts_accepted(achannel_info, cd.r)
    THEN [out |-> Raised("pl2_ad", filename, channel, "AssertionError", p,
                         Append(calls, cd.fn), achannel_info, cd.r),
          open |-> open]
    ELSE
    LET cl == pl2_close_file(p, open)
    IN  [out |-> Returned("pl2_ad", filename, channel,
                          PL2Ad(achannel_info, cd.r, p.pl2_file_info),
                          p, Append(Append(calls, cd.fn), cl.fn), achannel_info, cd.r),
         open |-> cl.open]

\* pl2_ad, were the data of a channel given by name fetched from index 0
pl2_ad_resolved_data_by_index(filename, channel, p, open, calls, ci) ==
    IF ci.exc # "none"
    THEN [out |-> Raised("pl2_ad", filename, channel, ci.exc, p,
                         IF ci.made THEN Append(calls, ci.fn) ELSE calls, ci.info, NoData),
          open |-> open]
    ELSE
    LET fragment_timestamps == c_arr("c_longlong", ci.info.m_MaximumNumberOfFragments)
        fragment_counts == c_arr("c_ulonglong", ci.info.m_MaximumNumberOfFragments)
        values == c_arr("c_short", ci.info.m_NumberOfValues)
    IN  pl2_ad_fetched(filename, channel, p, open, Append(calls, ci.fn), ci.info,
            IF IsInt(channel)
            THEN pl2_get_analog_channel_data(p, open, channel.v,
                     fragment_timestamps, fragment_counts, values)
            ELSE pl2_get_analog_channel_data(p, open, 0,
                     fragment_timestamps, fragment_counts, values))

\* pl2_ad once the info call was made: the buffers and the data call
pl2_ad_resolved(filename, channel, p, open, calls, ci) ==
    IF ci.exc # "none"
    THEN [out |-> Raised("pl2_ad", filename, channel, ci.exc, p,
                         IF ci.made THEN Append(calls, ci.fn) ELSE calls, ci.info, NoData),
          open |-> open]
    ELSE
    LET fragment_timestamps == c_arr("c_longlong", ci.info.m_MaximumNumberOfFragments)
        fragment_counts == c_arr("c_ulonglong", ci.info.m_MaximumNumberOfFragments)
        values == c_arr("c_short", ci.info.m_NumberOfValues)
    IN  pl2_ad_fetched(filename, channel, p, open, Append(calls, ci.fn), ci.info,
            IF IsInt(channel)
            THEN pl2_get_analog_channel_data(p, open, channel.v,
                     fragment_timestamps, fragment_counts, values)
            ELSE pl2_get_analog_channel_data_by_name(p, open, channel.v,
                     fragment_timestamps, fragment_counts, values))

\* pl2_ad once the file summary was stored: the info call
pl2_ad_opened(filename, channel, p, open, calls) ==
    IF ~IsInt(channel) /\ ~IsStr(channel)
    THEN \* achannel_info was never bound
         [out |-> Raised("pl2_ad", filename, channel, "UnboundLocalError", p, calls,
                         [m_Name |-> ""], NoData),
          open |-> open]
    ELSE pl2_ad_resolved(filename, channel, p, open, calls,
             IF IsInt(channel)
             THEN InfoOrRaise(pl2_get_analog_channel_info(p, open, channel.v))
             ELSE InfoOrRaise(pl2_get_analog_channel_info_by_name(p, open, channel.v)))

\* pl2_ad(filename, channel): the outcome and the handles left open
pl2_ad(filename, channel) ==
    LET o == pl2_open_file(NewReader, nextHandle, filename)
        fi == pl2_get_file_info(o.self, Opened(o))
    IN  pl2_ad_opened(filename, channel, StoreFileInfo(o.self, fi), Opened(o),
                      <<o.fn, fi.fn>>)

\* the assert of pl2_spikes on the returned count
spike_count_accepted(schannel_info, r) ==
    schannel_info.m_NumberOfSpikes = r.num_spikes_returned

\* (to_array(values) * coeff).reshape((rows, columns)), defined when the
\* sizes agree
reshape(values, coeff, rows, columns) ==
    [i \in 1..rows |-> [j \in 1..columns |-> Volts(values[(i - 1) * columns + j], coeff)]]

\* the named tuple pl2_spikes returns
PL2Spikes(schannel_info, r, waveforms, pl2_file_info) ==
    [n |-> r.num_spikes_returned,
     timestamps |-> [i \in 1..Len(r.spike_timestamps) |->
                        Seconds(to_array(r.spike_timestamps)[i],
                                pl2_file_info.m_TimestampFrequency)],
     units |-> to_array(r.units),
     waveforms |-> waveforms]

\* the length of the values array of pl2_spikes, were it one sample a spike
spike_values_one_each(schannel_info) == schannel_info.m_NumberOfSpikes

\* the length of the values array of pl2_spikes
spike_values_length(schannel_info) ==
    schannel_info.m_NumberOfSpikes * schannel_info.m_SamplesPerSpike

\* what the buffers of pl2_spikes hold when no data call was made
spikes_untouched(schannel_info) ==
    [result |-> 0,
     num_spikes_returned |-> schannel_info.m_NumberOfSpikes,
     spike_timestamps |-> Zeros(schannel_info.m_NumberOfSpikes),
     units |-> Zeros(schannel_info.m_NumberOfSpikes),
     values |-> Zeros(spike_values_length(schannel_info))]

\* pl2_spikes once the file was closed: the reshape and the record
pl2_spikes_closed(filename, channel, p, calls, schannel_info, r, cl) ==
    IF Len(r.values) # r.num_spikes_returned * schannel_info.m_SamplesPerSpike
    THEN [out |-> Raised("pl2_spikes", filename, channel, "ValueError", p,
                         Append(calls, cl.fn), schannel_info, r),
          open |-> cl.open]
    ELSE IF ~p.has_file_info
    THEN \* p.pl2_file_info was never set
         [out |-> Raised("pl2_spikes", filename, channel, "AttributeError", p,
                         Append(calls, cl.fn), schannel_info, r),
          open |-> cl.open]
    ELSE [out |-> Returned("pl2_spikes", filename, channel,
                           PL2Spikes(schannel_info, r,
                                     reshape(to_array(r.values),
                                             schannel_info.m_CoeffToConvertToUnits,
                                             r.num_spikes_returned,
                                             schannel_info.m_SamplesPerSpike),
                                     p.pl2_file_info),
                           p, Append(calls, cl.fn), schannel_info, r),
          open |-> cl.open]

\* pl2_spikes once the data call was made: the assert and the close
pl2_spikes_fetched(filename, channel, p, open, calls, schannel_info, cd) ==
    IF cd.exc # "none"
    THEN [out |-> Raised("pl2_spikes", filename, channel, cd.exc, p, calls,
                         schannel_info, NoData),
          open |-> open]
    ELSE IF ~spike_count_accepted(schannel_info, cd.r)
    THEN [out |-> Raised("pl2_spikes", filename, channel, "AssertionError", p,
                         IF cd.fn # "none" THEN Append(calls, cd.fn) ELSE calls,
                         schannel_info, cd.r),
          open |-> open]
    ELSE pl2_spikes_closed(filename, channel, p,
                           IF cd.fn # "none" THEN Append(calls, cd.fn) ELSE calls,
                           schannel_info, cd.r, pl2_close_file(p, open))

\* pl2_spikes once the info call was made: the buffers and the data call
pl2_spikes_resolved(filename, channel, p, open, calls, ci) ==
    IF ci.exc # "none"
    THEN [out |-> Raised("pl2_spikes", filename, channel, ci.exc, p,
                         IF ci.made THEN Append(calls, ci.fn) ELSE calls, ci.info, NoData),
          open |-> open]
    ELSE
    LET spike_timestamps == c_arr("c_ulonglong", ci.info.m_NumberOfSpikes)
        units == c_arr("c_ushort", ci.info.m_NumberOfSpikes)
        values == c_arr("c_short", spike_values_length(ci.info))
    IN  pl2_spikes_fetched(filename, channel, p, open,
            IF ci.made THEN Append(calls, ci.fn) ELSE calls, ci.info,
            IF IsInt(channel)
            THEN pl2_get_spike_channel_data(p, open, channel.v,
                     spike_timestamps, units, values)
            ELSE IF IsStr(channel)
            THEN pl2_get_spike_channel_data_by_name(p, open, channel.v,
                     spike_timestamps, units, values)
            ELSE [exc |-> "none", fn |-> "none", r |-> spikes_untouched(ci.info)])

\* pl2_spikes, were it to fetch the file summary as pl2_ad and pl2_events do
pl2_spikes_with_summary(filename, channel, unit) ==
    LET o == pl2_open_file(NewReader, nextHandle, filename)
        fi == pl2_get_file_info(o.self, Opened(o))
    IN  pl2_spikes_resolved(filename, channel, StoreFileInfo(o.self, fi), Opened(o),
            <<o.fn, fi.fn>>,
            IF IsInt(channel)
            THEN InfoOrRaise(pl2_get_spike_channel_info(o.self, Opened(o), channel.v))
            ELSE IF IsStr(channel)
            THEN InfoOrRaise(pl2_get_spike_channel_info_by_name(o.self, Opened(o),
                                                                channel.v))
            ELSE \* schannel_info = PL2SpikeChannelInfo()
                 [exc |-> "none", fn |-> "none", made |-> FALSE,
                  info |-> ZeroInfo("spike")])

\* pl2_spikes(filename, channel, unit): the outcome and the handles left
\* open; the file summary is not fetched and unit is not used
pl2_spikes(filename, channel, unit) ==
    LET o == pl2_open_file(NewReader, nextHandle, filename)
    IN  pl2_spikes_resolved(filename, channel, o.self, Opened(o), <<o.fn>>,
            IF IsInt(channel)
            THEN InfoOrRaise(pl2_get_spike_channel_info(o.self, Opened(o), channel.v))
            ELSE IF IsStr(channel)
            THEN InfoOrRaise(pl2_get_spike_channel_info_by_name(o.self, Opened(o),
                                                                channel.v))
            ELSE \* schannel_info = PL2SpikeChannelInfo()
                 [exc |-> "none", fn |-> "none", made |-> FALSE,
                  info |-> ZeroInfo("spike")])

\* the assert of pl2_events, were it the >= of pl2_ad
event_count_within(echannel_info, r) ==
    echannel_info.m_NumberOfEvents >= r.num_events_returned

\* the assert of pl2_events on the returned count
event_count_accepted(echannel_info, r) ==
    echannel_info.m_NumberOfEvents = r.num_events_returned

\* the named tuple of pl2_events, were its arrays trimmed as those of pl2_ad
PL2DigitalEvents_trimmed(r, pl2_file_info) ==
    [n |-> r.num_events_returned,
     timestamps |-> [i \in 1..Len(to_array_nonzero(r.event_timestamps)) |->
                        Seconds(to_array_nonzero(r.event_timestamps)[i],
                                pl2_file_info.m_TimestampFrequency)],
     values |-> to_array_nonzero(r.event_values)]

\* the named tuple pl2_events returns
PL2DigitalEvents(r, pl2_file_info) ==
    [n |-> r.num_events_returned,
     timestamps |-> [i \in 1..Len(r.event_timestamps) |->
                        Seconds(to_array(r.event_timestamps)[i],
                                pl2_file_info.m_TimestampFrequency)],
     values |-> to_array(r.event_values)]

\* pl2_events once the data call was made: the assert, the close, the record
pl2_events_fetched(filename, channel, p, open, calls, echannel_info, cd) ==
    IF cd.exc # "none"
    THEN [out |-> Raised("pl2_events", filename, channel, cd.exc, p, calls,
                         echannel_info, NoData),
          open |-> open]
    ELSE IF ~event_count_accepted(echannel_info, cd.r)
    THEN [out |-> Raised("pl2_events", filename, channel, "AssertionError", p,
                         Append(calls, cd.fn), echannel_info, cd.r),
          open |-> open]
    ELSE
    LET cl == pl2_close_file(p, open)
    IN  [out |-> Returned("pl2_events", filename, channel,
                          PL2DigitalEvents(cd.r, p.pl2_file_info),
                          p, Append(Append(calls, cd.fn), cl.fn), echannel_info, cd.r),
         open |-> cl.open]

\* pl2_events, were the file closed before the data call
pl2_events_resolved_close_first(filename, channel, p, open, calls, ci) ==
    IF ci.exc # "none"
    THEN [out |-> Raised("pl2_events", filename, channel, ci.exc, p,
                         IF ci.made THEN Append(calls, ci.fn) ELSE calls, ci.info, NoData),
          open |-> open]
    ELSE
    LET event_timestamps == c_arr("c_longlong", ci.info.m_NumberOfEvents)
        event_values == c_arr("c_ushort", ci.info.m_NumberOfEvents)
        cl == pl2_close_file(p, open)
    IN  pl2_events_fetched(filename, channel, p, cl.open,
            Append(Append(calls, ci.fn), cl.fn), ci.info,
            IF IsInt(channel)
            THEN pl2_get_digital_channel_data(p, cl.open, channel.v,
                     event_timestamps, event_values)
            ELSE pl2_get_digital_channel_data_by_name(p, cl.open, channel.v,
                     event_timestamps, event_values))

\* pl2_events once the info call was made: the buffers and the data call
pl2_events_resolved(filename, channel, p, open, calls, ci) ==
    IF ci.exc # "none"
    THEN [out |-> Raised("pl2_events", filename, channel, ci.exc, p,
                         IF ci.made THEN Append(calls, ci.fn) ELSE calls, ci.info, NoData),
          open |-> open]
    ELSE
    LET event_timestamps == c_arr("c_longlong", ci.info.m_NumberOfEvents)
        event_values == c_arr("c_ushort", ci.info.m_NumberOfEvents)
    IN  pl2_events_fetched(filename, channel, p, open, Append(calls, ci.fn), ci.info,
            IF IsInt(channel)
            THEN pl2_get_digital_channel_data(p, open, channel.v,
                     event_timestamps, event_values)
            ELSE pl2_get_digital_channel_data_by_name(p, open, channel.v,
                     event_timestamps, event_values))

\* pl2_events, were a (source, channel) pair handed to the by_source methods
pl2_events_opened_by_source(filename, channel, p, open, calls) ==
    IF channel.type = "tuple"
    THEN LET ci == InfoOrRaise(pl2_get_digital_channel_info_by_source(p, open, channel.v[1], channel.v[2]))
         IN  IF ci.exc # "none"
             THEN [out |-> Raised("pl2_events", filename, channel, ci.exc, p,
                                  IF ci.made THEN Append(calls, ci.fn) ELSE calls,
                                  ci.info, NoData),
                   open |-> open]
             ELSE pl2_events_fetched(filename, channel, p, open, Append(calls, ci.fn),
                      ci.info,
                      pl2_get_digital_channel_data_by_source(p, open, channel.v[1],
                          channel.v[2],
                          c_arr("c_longlong", ci.info.m_NumberOfEvents),
                          c_arr("c_ushort", ci.info.m_NumberOfEvents)))
    ELSE IF ~IsInt(channel) /\ ~IsStr(channel)
    THEN [out |-> Raised("pl2_events", filename, channel, "UnboundLocalError", p, calls,
                         [m_Name |-> ""], NoData),
          open |-> open]
    ELSE pl2_events_resolved(filename, channel, p, open, calls,
             IF IsInt(channel)
             THEN InfoOrRaise(pl2_get_digital_channel_info(p, open, channel.v))
             ELSE InfoOrRaise(pl2_get_digital_channel_info_by_name(p, open, channel.v)))

\* pl2_events once the file summary was stored: the info call
pl2_events_opened(filename, channel, p, open, calls) ==
    IF ~IsInt(channel) /\ ~IsStr(channel)
    THEN \* echannel_info was never bound
         [out |-> Raised("pl2_events", filename, channel, "UnboundLocalError", p, calls,
                         [m_Name |-> ""], NoData),
          open |-> open]
    ELSE pl2_events_resolved(filename, channel, p, open, calls,
             IF IsInt(channel)
             THEN InfoOrRaise(pl2_get_digital_channel_info(p, open, channel.v))
             ELSE InfoOrRaise(pl2_get_digital_channel_info_by_name(p, open, channel.v)))

\* pl2_events(filename, channel): the outcome and the handles left open
pl2_events(filename, channel) ==
    LET o == pl2_open_file(NewReader, nextHandle, filename)
        fi == pl2_get_file_info(o.self, Opened(o))
    IN  pl2_events_opened(filename, channel, StoreFileInfo(o.self, fi), Opened(o),
                          <<o.fn, fi.fn>>)

\* the entries pl2_info appends
spike_info(schannel_info) ==
    [channel |-> schannel_info.m_Channel, name |-> schannel_info.m_Name,
     units |-> schannel_info.m_UnitCounts]
event_info(echannel_info) ==
    [channel |-> echannel_info.m_Channel, name |-> echannel_info.m_Name,
     n |-> echannel_info.m_NumberOfEvents]
ad_info(achannel_info) ==
    [channel |-> achannel_info.m_Channel, name |-> achannel_info.m_Name,
     n |-> achannel_info.m_NumberOfValues]

\* the three loops of pl2_info: the info calls for indexes 0 .. count - 1
scan_spikes(p, open) ==
    [i \in 1..p.pl2_file_info.m_TotalNumberOfSpikeChannels |->
        InfoOrRaise(pl2_get_spike_channel_info(p, open, i - 1))]
scan_events(p, open) ==
    [i \in 1..p.pl2_file_info.m_NumberOfDigitalChannels |->
        InfoOrRaise(pl2_get_digital_channel_info(p, open, i - 1))]
scan_ad(p, open) ==
    [i \in 1..p.pl2_file_info.m_TotalNumberOfAnalogChannels |->
        InfoOrRaise(pl2_get_analog_channel_info(p, open, i - 1))]

Infos(scan) == [i \in 1..Len(scan) |-> scan[i].info]
Fns(scan) == [i \in 1..Len(scan) |-> scan[i].fn]

\* the named tuple of pl2_info, were the event channels not filtered
PL2Info_every_event_channel(spikes, events, ad) ==
    LET spike_counts == SelectSeq(spikes, LAMBDA d : d.m_ChannelEnabled # 0)
        ad_counts == SelectSeq(ad, LAMBDA d : d.m_ChannelEnabled # 0)
    IN  [spikes |-> [i \in 1..Len(spike_counts) |-> spike_info(spike_counts[i])],
         events |-> [i \in 1..Len(events) |-> event_info(events[i])],
         ad |-> [i \in 1..Len(ad_counts) |-> ad_info(ad_counts[i])]]

\* the named tuple pl2_info returns
PL2Info(spikes, events, ad) ==
    LET spike_counts == SelectSeq(spikes, LAMBDA d : d.m_ChannelEnabled # 0)
        event_counts == SelectSeq(events, LAMBDA d : d.m_NumberOfEvents # 0)
        ad_counts == SelectSeq(ad, LAMBDA d : d.m_ChannelEnabled # 0)
    IN  [spikes |-> [i \in 1..Len(spike_counts) |-> spike_info(spike_counts[i])],
         events |-> [i \in 1..Len(event_counts) |-> event_info(event_counts[i])],
         ad |-> [i \in 1..Len(ad_counts) |-> ad_info(ad_counts[i])]]

\* pl2_info, were its reader to go on using the handle of the first file opened
pl2_info_first_handle(filename) ==
    LET o1 == pl2_open_file(NewReader, nextHandle, filename)
        o == [o1 EXCEPT !.self.file_handle = IF o1.value > 0 THEN 1 ELSE 0]
        open == Opened(o)
        fi == pl2_get_file_info(o.self, open)
        p == StoreFileInfo(o.self, fi)
        ss == scan_spikes(p, open)
        es == scan_events(p, open)
        as == scan_ad(p, open)
        all == ss \o es \o as
        bad == {i \in 1..Len(all) : all[i].exc # "none"}
        calls == <<o.fn, fi.fn>> \o Fns(all)
        none == [type |-> "none", v |-> 0]
    IN  IF bad # {}
        THEN LET first == CHOOSE i \in bad : \A j \in bad : i <= j
             IN  [out |-> Raised("pl2_info", filename, none, all[first].exc, p,
                                 SubSeq(calls, 1, 2 + first - 1), [m_Name |-> ""], NoData),
                  open |-> open]
        ELSE LET cl == pl2_close_file(p, open)
             IN  [out |-> Returned("pl2_info", filename, none,
                                   PL2Info(Infos(ss), Infos(es), Infos(as)),
                                   p, Append(calls, cl.fn), [m_Name |-> ""], NoData),
                  open |-> cl.open]

\* pl2_info(filename): the outcome and the handles left open
pl2_info(filename) ==
    LET o == pl2_open_file(NewReader, nextHandle, filename)
        open == Opened(o)
        fi == pl2_get_file_info(o.self, open)
        p == StoreFileInfo(o.self, fi)
        ss == scan_spikes(p, open)
        es == scan_events(p, open)
        as == scan_ad(p, open)
        all == ss \o es \o as
        bad == {i \in 1..Len(all) : all[i].exc # "none"}
        calls == <<o.fn, fi.fn>> \o Fns(all)
        none == [type |-> "none", v |-> 0]
    IN  IF bad # {}
        THEN LET first == CHOOSE i \in bad : \A j \in bad : i <= j
             IN  [out |-> Raised("pl2_info", filename, none, all[first].exc, p,
                                 SubSeq(calls, 1, 2 + first - 1), [m_Name |-> ""], NoData),
                  open |-> open]
        ELSE LET cl == pl2_close_file(p, open)
             IN  [out |-> Returned("pl2_info", filename, none,
                                   PL2Info(Infos(ss), Infos(es), Infos(as)),
                                   p, Append(calls, cl.fn), [m_Name |-> ""], NoData),
                  open |-> cl.open]

----------------------------------------------------------------------------
(* test_pypl2.py: the three addressing paths of one channel, on a reader  *)
(* whose file the fixture opened.                                          *)

InfoBy(kind, form, self, open, sel) ==
    CASE kind = "analog" /\ form = "index" -> pl2_get_analog_channel_info(self, open, sel)
      [] kind = "analog" /\ form = "name" ->
           pl2_get_analog_channel_info_by_name(self, open, sel)
      [] kind = "analog" /\ form = "source" ->
           pl2_get_analog_channel_info_by_source(self, open, sel[1], sel[2])
      [] kind = "spike" /\ form = "index" -> pl2_get_spike_channel_info(self, open, sel)
      [] kind = "spike" /\ form = "name" ->
           pl2_get_spike_channel_info_by_name(self, open, sel)
      [] kind = "spike" /\ form = "source" ->
           pl2_get_spike_channel_info_by_source(self, open, sel[1], sel[2])
      [] kind = "digital" /\ form = "index" -> pl2_get_digital_channel_info(self, open, sel)
      [] kind = "digital" /\ form = "name" ->
           pl2_get_digital_channel_info_by_name(self, open, sel)
      [] kind = "digital" /\ form = "source" ->
           pl2_get_digital_channel_info_by_source(self, open, sel[1], sel[2])

\* the buffers the tests allocate from the descriptor, the same for each path
DataBy(kind, form, self, open, sel, d) ==
    LET ft == c_arr("c_longlong", d.m_MaximumNumberOfFragments)
        fc == c_arr("c_ulonglong", d.m_MaximumNumberOfFragments)
        av == c_arr("c_short", d.m_NumberOfValues)
        st == c_arr("c_ulonglong", d.m_NumberOfSpikes)
        su == c_arr("c_ushort", d.m_NumberOfSpikes)
        sv == c_arr("c_short", d.m_NumberOfSpikes * d.m_SamplesPerSpike)
        et == c_arr("c_longlong", d.m_NumberOfEvents)
        ev == c_arr("c_ushort", d.m_NumberOfEvents)
    IN  CASE kind = "analog" /\ form = "index" ->
               pl2_get_analog_channel_data(self, open, sel, ft, fc, av)
          [] kind = "analog" /\ form = "name" ->
               pl2_get_analog_channel_data_by_name(self, open, sel, ft, fc, av)
          [] kind = "analog" /\ form = "source" ->
               pl2_get_analog_channel_data_by_source(self, open, sel[1], sel[2], ft, fc, av)
          [] kind = "spike" /\ form = "index" ->
               pl2_get_spike_channel_data(self, open, sel, st, su, sv)
          [] kind = "spike" /\ form = "name" ->
               pl2_get_spike_channel_data_by_name(self, open, sel, st, su, sv)
          [] kind = "spike" /\ form = "source" ->
               pl2_get_spike_channel_data_by_source(self, open, sel[1], sel[2], st, su, sv)
          [] kind = "digital" /\ form = "index" ->
               pl2_get_digital_channel_data(self, open, sel, et, ev)
          [] kind = "digital" /\ form = "name" ->
               pl2_get_digital_channel_data_by_name(self, open, sel, et, ev)
          [] kind = "digital" /\ form = "source" ->
               pl2_get_digital_channel_data_by_source(self, open, sel[1], sel[2], et, ev)

\* test_compare_FileReader_<kind>ChannelInfo for channel index i
compare_info(kind, i) ==
    LET o == pl2_open_file(NewReader, nextHandle, GoodFile)
        open == Opened(o)
        by_index == InfoBy(kind, "index", o.self, open, i)
        d == by_index.r.out
    IN  [out |-> [op |-> "compare_info", kind |-> kind, i |-> i, handle |-> o.value,
                  by_index |-> by_index,
                  by_name |-> InfoBy(kind, "name", o.self, open, d.m_Name),
                  by_source |-> InfoBy(kind, "source", o.self, open,
                                       <<d.m_Source, d.m_Channel>>)],
         open |-> open]

\* test_compare_FileReader_<kind>_data for channel index i
compare_data(kind, i) ==
    LET o == pl2_open_file(NewReader, nextHandle, GoodFile)
        open == Opened(o)
        d == InfoBy(kind, "index", o.self, open, i).r.out
    IN  [out |-> [op |-> "compare_data", kind |-> kind, i |-> i, handle |-> o.value,
                  by_index |-> DataBy(kind, "index", o.self, open, i, d),
                  by_name |-> DataBy(kind, "name", o.self, open, d.m_Name, d),
                  by_source |-> DataBy(kind, "source", o.self, open,
                                       <<d.m_Source, d.m_Channel>>, d)],
         open |-> open]

----------------------------------------------------------------------------
(* The state machine: calls made one after the other in one process.       *)

Filenames == {GoodFile, "missing.pl2"}

Names(kind) ==
    CASE kind = "analog" -> {"WB01", "WB02"}
      [] kind = "spike" -> {"SPK1", "SPK2"}
      [] kind = "digital" -> {"EVT1", "EVT2"}

\* the values of the channel argument: indexes (2 is past the last
\* channel), names, the (source, channel) pair of the first channel, and a
\* value that is none of these
ChannelArgs(kind) ==
    { [type |-> "int", v |-> i] : i \in 0..2 }
    \cup { [type |-> "str", v |-> n] : n \in Names(kind) \cup {"DoesNotExist"} }
    \cup { [type |-> "tuple", v |-> <<Channels(kind)[1].info.m_Source,
                                      Channels(kind)[1].info.m_Channel>>] }
    \cup { [type |-> "NoneType", v |-> 0], [type |-> "float", v |-> 0],
           [type |-> "bool", v |-> 1] }

\* the argument lists of the calls made
AdArgs ==
    { <<GoodFile, channel>> : channel \in ChannelArgs("analog") }
    \cup { <<"missing.pl2", [type |-> "int", v |-> 0]>> }
SpikesArgs ==
    { <<GoodFile, channel, 0>> : channel \in ChannelArgs("spike") }
    \cup { <<GoodFile, [type |-> "int", v |-> 0], 1>>,
           <<"missing.pl2", [type |-> "int", v |-> 0], 0>> }
EventsArgs ==
    { <<GoodFile, channel>> : channel \in ChannelArgs("digital") }
    \cup { <<"missing.pl2", [type |-> "int", v |-> 0]>> }

NoCall == [op |-> "none", status |-> "none", handle |-> 0]

\* a reader just constructed: self is the object, ever tells whether
\* pl2_open_file has set its file_handle, closed holds the handles it has
\* handed to PL2_CloseFile
NoReader == [self |-> NewReader, ever |-> FALSE, closed |-> {}]

\* the queries run interleaved
NumQueries == 2
QueryIds == 1..NumQueries

\* a query not yet started
NoQuery == [pc |-> "start", kind |-> "none", self |-> NewReader, info |-> [m_Name |-> ""]]

Init ==
    /\ ffi \in {"ctypes", "zugbruecke"}
    /\ pl2 \in Files
    /\ openHandles = {}
    /\ nextHandle = 1
    /\ ret = NoCall
    /\ reader = NoReader
    /\ queries = [q \in QueryIds |-> NoQuery]

\* a call that opened a file used up the handle
After(q) ==
    /\ ret' = q.out
    /\ openHandles' = q.open
    /\ nextHandle' = IF q.out.handle > 0 THEN nextHandle + 1 ELSE nextHandle
    /\ UNCHANGED <<ffi, pl2, reader, queries>>

Call_pl2_ad ==
    /\ nextHandle <= MaxOpens
    /\ \E a \in AdArgs : After(pl2_ad(a[1], a[2]))

Call_pl2_spikes ==
    /\ nextHandle <= MaxOpens
    /\ \E a \in SpikesArgs :
          LET q == pl2_spikes(a[1], a[2], a[3])
          IN  After([out |-> q.out @@ [unit |-> a[3]], open |-> q.open])

Call_pl2_events ==
    /\ nextHandle <= MaxOpens
    /\ \E a \in EventsArgs : After(pl2_events(a[1], a[2]))

\* the outcome also keeps what the call before it gave, when that was
\* pl2_info on the same file
Call_pl2_info ==
    /\ nextHandle <= MaxOpens
    /\ \E filename \in Filenames :
          LET q == pl2_info(filename)
              again == ret.op = "pl2_info" /\ ret.filename = filename
          IN  After([out |-> q.out @@ [again |-> again,
                                       before |-> IF again
                                                  THEN [status |-> ret.status, rec |-> ret.rec]
                                                  ELSE [status |-> "none", rec |-> NoRecord]],
                     open |-> q.open])

Test_compare_info ==
    /\ nextHandle <= MaxOpens
    /\ \E kind \in Kinds : \E i \in 0..(Len(Channels(kind)) - 1) :
          After(compare_info(kind, i))

Test_compare_data ==
    /\ nextHandle <= MaxOpens
    /\ \E kind \in Kinds : \E i \in 0..(Len(Channels(kind)) - 1) :
          After(compare_data(kind, i))

Next ==
    \/ Call_pl2_ad
    \/ Call_pl2_spikes
    \/ Call_pl2_events
    \/ Call_pl2_info
    \/ Test_compare_info
    \/ Test_compare_data

Spec == Init /\ [][Next]_vars

----------------------------------------------------------------------------
(* One PyPL2FileReader used directly, as test_pypl2.py does: its methods   *)
(* called in any order once pl2_open_file has been called.                 *)

\* reader.pl2_open_file(filename)
Reader_open ==
    /\ nextHandle <= MaxOpens
    /\ \E filename \in Filenames :
          LET o == pl2_open_file(reader.self, nextHandle, filename)
          IN  /\ reader' = [reader EXCEPT !.self = o.self, !.ever = TRUE]
              /\ openHandles' = Opened(o)
              /\ nextHandle' = IF o.value > 0 THEN nextHandle + 1 ELSE nextHandle
              /\ ret' = [op |-> "pl2_open_file", status |-> "none", handle |-> 0,
                         filename |-> filename, exc |-> o.exc, value |-> o.value]
    /\ UNCHANGED <<ffi, pl2, queries>>

\* reader.pl2_close_file()
Reader_close ==
    /\ reader.ever
    /\ LET cl == pl2_close_file(reader.self, openHandles)
       IN  /\ openHandles' = cl.open
           /\ reader' = [reader EXCEPT !.closed =
                             IF cl.exc = "none" THEN @ \cup {reader.self.file_handle}
                                                ELSE @]
           /\ ret' = [op |-> "pl2_close_file", status |-> "none", handle |-> 0,
                      exc |-> cl.exc, passed |-> reader.self.file_handle]
    /\ UNCHANGED <<ffi, pl2, nextHandle, queries>>

\* reader.pl2_get_<kind>_channel_info(i, info)
Reader_info ==
    /\ reader.ever
    /\ \E kind \in Kinds : \E i \in 0..(Len(Channels(kind)) - 1) :
          LET c == InfoBy(kind, "index", reader.self, openHandles, i)
          IN  ret' = [op |-> "channel_info", status |-> "none", handle |-> 0,
                      kind |-> kind, i |-> i, exc |-> c.exc, result |-> c.r.result,
                      passed |-> reader.self.file_handle]
    /\ UNCHANGED <<ffi, pl2, openHandles, nextHandle, reader, queries>>

\* reader.pl2_get_<kind>_channel_data(i, ...), the buffers sized from the
\* descriptor the info call filled
Reader_data ==
    /\ reader.ever
    /\ \E kind \in Kinds : \E i \in 0..(Len(Channels(kind)) - 1) :
          LET d == InfoBy(kind, "index", reader.self, openHandles, i).r.out
              c == DataBy(kind, "index", reader.self, openHandles, i, d)
          IN  ret' = [op |-> "channel_data", status |-> "none", handle |-> 0,
                      kind |-> kind, i |-> i, exc |-> c.exc, result |-> c.r.result,
                      passed |-> reader.self.file_handle]
    /\ UNCHANGED <<ffi, pl2, openHandles, nextHandle, reader, queries>>

ReaderNext ==
    \/ Reader_open
    \/ Reader_close
    \/ Reader_info
    \/ Reader_data

ReaderSpec == Init /\ [][ReaderNext]_vars

----------------------------------------------------------------------------
(* The query functions run interleaved, as from several threads: each call *)
(* of pl2_ad, pl2_spikes or pl2_events is cut at its native calls.  A      *)
(* query reads channel index 0 of its kind.                                *)

\* what a step of query q leaves in ret: the native function it called and
\* the handles that call closed
Stepped(q, fn, closed) ==
    [op |-> "query_step", status |-> "none", handle |-> 0, q |-> q, fn |-> fn,
     closed |-> closed]

\* p = PyPL2FileReader(); p.pl2_open_file(filename)
Query_open(q) ==
    /\ queries[q].pc = "start"
    /\ nextHandle <= MaxOpens
    /\ \E kind \in Kinds, filename \in Filenames :
          LET o == pl2_open_file(NewReader, nextHandle, filename)
          IN  /\ queries' = [queries EXCEPT ![q] =
                                [pc |-> "opened", kind |-> kind, self |-> o.self,
                                 info |-> [m_Name |-> ""]]]
              /\ openHandles' = Opened(o)
              /\ nextHandle' = IF o.value > 0 THEN nextHandle + 1 ELSE nextHandle
              /\ ret' = Stepped(q, o.fn, {})
    /\ UNCHANGED <<ffi, pl2, reader>>

\* p.pl2_get_file_info() (not in pl2_spikes) and the channel info call
Query_info(q) ==
    /\ queries[q].pc = "opened"
    /\ LET me == queries[q]
           p == IF me.kind = "spike" THEN me.self
                ELSE StoreFileInfo(me.self, pl2_get_file_info(me.self, openHandles))
           ci == InfoOrRaise(InfoBy(me.kind, "index", p, openHandles, 0))
       IN  /\ queries' = [queries EXCEPT ![q] =
                             [me EXCEPT !.pc = IF ci.exc = "none" THEN "resolved"
                                                                  ELSE "raised",
                                        !.self = p, !.info = ci.info]]
           /\ ret' = Stepped(q, ci.fn, {})
    /\ UNCHANGED <<ffi, pl2, openHandles, nextHandle, reader>>

\* the data call into buffers sized from the descriptor, and the asserts
Query_data(q) ==
    /\ queries[q].pc = "resolved"
    /\ LET me == queries[q]
           c == DataBy(me.kind, "index", me.self, openHandles, 0, me.info)
           accepted == CASE me.kind = "analog" -> ad_counts_accepted(me.info, c.r)
                         [] me.kind = "spike" -> spike_count_accepted(me.info, c.r)
                         [] me.kind = "digital" -> event_count_accepted(me.info, c.r)
       IN  /\ queries' = [queries EXCEPT ![q].pc =
                             IF c.exc = "none" /\ accepted THEN "fetched" ELSE "raised"]
           /\ ret' = Stepped(q, c.fn, {})
    /\ UNCHANGED <<ffi, pl2, openHandles, nextHandle, reader>>

\* p.pl2_close_file(), were it p.pl2_close_all_files()
Query_close_all_files(q) ==
    /\ queries[q].pc = "fetched"
    /\ queries' = [queries EXCEPT ![q].pc = "done"]
    /\ openHandles' = {}
    /\ ret' = Stepped(q, "PL2_CloseAllFiles", openHandles)
    /\ UNCHANGED <<ffi, pl2, nextHandle, reader>>

\* p.pl2_close_file()
Query_close(q) ==
    /\ queries[q].pc = "fetched"
    /\ LET cl == pl2_close_file(queries[q].self, openHandles)
       IN  /\ queries' = [queries EXCEPT ![q].pc = "done"]
           /\ openHandles' = cl.open
           /\ ret' = Stepped(q, cl.fn, openHandles \ cl.open)
    /\ UNCHANGED <<ffi, pl2, nextHandle, reader>>

\* the function returns its record or its exception leaves it; the reader
\* object goes with it
Query_end(q) ==
    /\ queries[q].pc \in {"done", "raised"}
    /\ queries' = [queries EXCEPT ![q] = NoQuery]
    /\ ret' = Stepped(q, "none", {})
    /\ UNCHANGED <<ffi, pl2, openHandles, nextHandle, reader>>

InterleavedNext ==
    \E q \in QueryIds :
        \/ Query_open(q)
        \/ Query_info(q)
        \/ Query_data(q)
        \/ Query_close(q)
        \/ Query_end(q)

InterleavedSpec == Init /\ [][InterleavedNext]_vars

----------------------------------------------------------------------------
(* Properties                                                              *)

Queries == {"pl2_ad", "pl2_spikes", "pl2_events", "pl2_info"}
DataQueries == {"pl2_ad", "pl2_spikes", "pl2_events"}

\* the three calls of a comparison were made and agree in result and in
\* everything they filled
PathsAgree(r) ==
    /\ r.by_index.exc = "none" /\ r.by_name.exc = "none" /\ r.by_source.exc = "none"
    /\ r.by_index.r.result = 1
    /\ r.by_name.r = r.by_index.r
    /\ r.by_source.r = r.by_index.r

\* C1: for every channel of every kind of an open file, the descriptor got
\* by index, the one got by the name in it and the one got by the (source,
\* channel) in it are equal in every field.
C1_InfoPathsAgree ==
    ret.op = "compare_info" => PathsAgree(ret)

\* C2: for every channel of every kind, the data got by index, by name and
\* by (source, channel) into buffers of the same capacity have the same
\* returned counts and the same arrays.
C2_DataPathsAgree ==
    ret.op = "compare_data" => PathsAgree(ret)

C4_FailedQueryReleasedItsFile ==
    (ret.op \in Queries /\ ret.status = "raised" /\ ret.handle > 0)
        => ret.handle \notin openHandles

\* the positions of the nonzero entries of a sequence, in order
Nonzero(counts) == SelectSeq([i \in 1..Len(counts) |-> i], LAMBDA i : counts[i] # 0)

Fetched == ret.op \in DataQueries /\ ret.data.result = 1

Overflow ==
    CASE ret.op = "pl2_ad" ->
           \/ ret.data.num_fragments_returned > ret.info.m_MaximumNumberOfFragments
           \/ ret.data.num_data_points_returned > ret.info.m_NumberOfValues
      [] ret.op = "pl2_spikes" -> ret.data.num_spikes_returned > ret.info.m_NumberOfSpikes
      [] ret.op = "pl2_events" -> ret.data.num_events_returned > ret.info.m_NumberOfEvents

\* the reader reported fewer fragments, spikes or events than the capacity
Underfull ==
    CASE ret.op = "pl2_ad" ->
           ret.data.num_fragments_returned < ret.info.m_MaximumNumberOfFragments
      [] ret.op = "pl2_spikes" -> ret.data.num_spikes_returned < ret.info.m_NumberOfSpikes
      [] ret.op = "pl2_events" -> ret.data.num_events_returned < ret.info.m_NumberOfEvents

\* the count of the record returned, as the reader reported it
ActualCount ==
    CASE ret.op = "pl2_ad" -> ret.data.num_data_points_returned
      [] ret.op = "pl2_spikes" -> ret.data.num_spikes_returned
      [] ret.op = "pl2_events" -> ret.data.num_events_returned

KindOf(op) ==
    CASE op = "pl2_ad" -> "analog"
      [] op = "pl2_spikes" -> "spike"
      [] op = "pl2_events" -> "digital"

\* the last query named its channel by index or by name
BySelector == ret.op \in DataQueries /\ ret.channel.type \in {"int", "str"}

\* position in the file of the channel the last query named, 0 if none
Addressed ==
    Lookup(KindOf(ret.op), IF IsInt(ret.channel) THEN "index" ELSE "name", ret.channel.v)

\* C11: a query for an index or a name that no channel of the open file has
\* (such as "DoesNotExist") fails with the channel-not-found error, makes no
\* data call, returns no record and leaves no handle open.
C11_UnknownChannelFailsCleanly ==
    (BySelector /\ ret.handle > 0 /\ Addressed = 0) =>
        /\ ret.status = "raised"
        /\ ret.err = "ChannelNotFoundError"
        /\ ret.data = NoData
        /\ ret.rec = NoRecord
        /\ ret.handle \notin openHandles

\* C12: a query on a path that the native reader cannot open fails with the
\* file-open error right after PL2_OpenFile: it makes no other call and
\* returns no record.
C12_OpenFailureStopsTheQuery ==
    (ret.op \in Queries /\ ret.filename # GoodFile) =>
        /\ ret.status = "raised"
        /\ ret.err = "FileOpenError"
        /\ ret.calls = <<"PL2_OpenFile">>
        /\ ret.rec = NoRecord

\* the native data call of the last query was made and reported failure
DataReadFailed == BySelector /\ ret.data # NoData /\ ret.data.result = 0

\* the last query met an error: the file did not open, the channel was not
\* found, or the data read reported failure
ErrorMet ==
    \/ ret.filename # GoodFile
    \/ BySelector /\ Addressed = 0
    \/ DataReadFailed

\* C13: when pl2_ad or pl2_spikes meets an error it returns 0 to its caller
\* (having printed the message), it does not raise.  A call that returns 0
\* has status "zero"; the functions' exits are status "raised" and "record".
C13_ErrorReturnsZero ==
    (ret.op \in {"pl2_ad", "pl2_spikes"} /\ ErrorMet) => ret.status = "zero"

Descriptor == Channels(KindOf(ret.op))[Addressed].info

C16_SummaryFetchedAfterOpen ==
    (ret.op \in DataQueries /\ ret.handle > 0) =>
        /\ Len(ret.calls) >= 2
        /\ ret.calls[1] = "PL2_OpenFile"
        /\ ret.calls[2] = "PL2_GetFileInfo"
        /\ ret.status = "record" =>
               \A i \in 1..Len(ret.rec.timestamps) :
                   ret.rec.timestamps[i].den = pl2.m_TimestampFrequency

Repeat(fn, n) == [i \in 1..n |-> fn]

\* the headers of the channels of a kind that pass a test, in index order
Kept(kind, Test(_)) ==
    SelectSeq([i \in 1..Len(Channels(kind)) |-> Channels(kind)[i].info], Test)

ByPair == ret.op \in DataQueries /\ ret.handle > 0 /\ ret.channel.type = "tuple"

\* the native calls that resolve a channel or fetch its data
ChannelCalls ==
    { f \o g \o "Channel" \o h \o s :
        f \in {"PL2_Get"}, g \in {"Analog", "Spike", "Digital"},
        h \in {"Info", "Data"}, s \in {"", "ByName", "BySource"} }

C23_ClosedHandleNotUsed ==
    (ret.op \in {"channel_info", "channel_data"} /\ ret.exc = "none") =>
        ret.passed \notin reader.closed

\* C25: pl2_open_file returns the handle the native reader opened, a number
\* greater than 0 that is open and is the reader's file_handle, when the
\* native open succeeds, and 0 when it fails.
C25_OpenReturnsHandleOrZero ==
    ret.op = "pl2_open_file" =>
        IF ret.filename = GoodFile
        THEN /\ ret.value > 0
             /\ ret.value = reader.self.file_handle
             /\ ret.value \in openHandles
        ELSE /\ ret.value = 0
             /\ reader.self.file_handle = 0

\* a reader opened a second file after a first, and a reader failed to open
\* a file after it had opened one
C25_Witness ==
    /\ ret.op = "pl2_open_file"
    /\ \/ ret.filename = GoodFile /\ ret.value = 2
       \/ ret.filename # GoodFile /\ ret.value = 0 /\ openHandles # {}

\* C29: the handles a reader opened and has not closed are at most the one
\* in its file_handle field; a second pl2_open_file without a close between
\* leaves no earlier handle open.
C29_OpenHandleIsTheStoredOne ==
    reader.ever => openHandles \subseteq {reader.self.file_handle}

\* the queries that hold a handle of their own and have not closed it yet
InProgress ==
    { q \in QueryIds : /\ queries[q].pc \in {"opened", "resolved", "fetched"}
                       /\ queries[q].self.file_handle > 0 }

At(calls, fns) == {i \in 1..Len(calls) : calls[i] \in fns}

\* the native calls that fetch the file summary or a channel descriptor
InfoCalls ==
    {"PL2_GetFileInfo"} \cup
    { "PL2_Get" \o g \o "ChannelInfo" \o s :
        g \in {"Analog", "Spike", "Digital"}, s \in {"", "ByName", "BySource"} }

\* the native calls that fetch a channel's data
DataCalls == ChannelCalls \ InfoCalls

\* the last query ran to its end: it returned a record, or (pl2_spikes) it
\* got as far as the conversion of what it had fetched
Completed ==
    /\ ret.op \in Queries
    /\ \/ ret.status = "record"
       \/ ret.op = "pl2_spikes" /\ At(ret.calls, {"PL2_CloseFile"}) # {}

OddSelector ==
    ret.op \in DataQueries /\ ret.channel.type \notin {"int", "str", "bytes"}

\* C28: pl2_ad, pl2_spikes and pl2_events handed a channel that is neither
\* an integer nor a string or bytes value end in an error and return no
\* record, not even an empty one with n = 0.
C28_OddSelectorFails ==
    OddSelector =>
        /\ ret.status = "raised"
        /\ ret.err # "none"
        /\ ret.rec = NoRecord
        /\ At(ret.calls, ChannelCalls) = {}

\* pl2_spikes was handed None, a float or a bool, opened and closed the file
\* and raised
C28_Witness ==
    /\ OddSelector /\ ret.op = "pl2_spikes"
    /\ ret.channel.type \in {"NoneType", "float", "bool"}
    /\ ret.calls = <<"PL2_OpenFile", "PL2_CloseFile">>
    /\ ret.status = "raised"

\* the native channel call of a kind and a step ("Info" or "Data") that goes
\* with the form of the selector: by index for an int, by name for a str
CallFor(op, step, channel) ==
    "PL2_Get"
    \o (CASE op = "pl2_ad" -> "Analog" [] op = "pl2_spikes" -> "Spike"
          [] op = "pl2_events" -> "Digital")
    \o "Channel" \o step
    \o (IF IsInt(channel) THEN "" ELSE "ByName")

\* the number of samples, spikes or events the file holds for the channel
\* the last query named
StoredCount ==
    LET ch == Channels(KindOf(ret.op))[Addressed]
    IN  CASE ret.op = "pl2_ad" -> Len(ch.vals)
          [] ret.op = "pl2_spikes" -> Len(ch.spikes)
          [] ret.op = "pl2_events" -> Len(ch.events)

====
